---- MODULE Spec2Model ----
(***************************************************************************)
(* StockGuardian: portfolio valuation, alert checking and forecasting.     *)
(*                                                                         *)
(* The repository holds two revisions of the dashboard script:             *)
(*   src/utils.py  the session-state revision: holdings and alert rows     *)
(*                 live in st.session_state, alerts are checked by         *)
(*                 check_alerts (manual button and on every load);         *)
(*   src/app.py    the CSV revision: holdings and their three thresholds   *)
(*                 live in investments.csv, alerts are checked inline in   *)
(*                 the LIVE P&L loop.                                      *)
(* A Streamlit script runs top to bottom once per user interaction.  A     *)
(* script run is split into steps where the script blocks on the Price     *)
(* Source or the Notifier inside a loop: every iteration of check_alerts   *)
(* and of the LIVE P&L loop is a step that draws the answer of its fetch   *)
(* and the outcome of its sends.  st.rerun() ends a run and hands control  *)
(* back to the script runner; the run it starts is a step of its own.      *)
(*                                                                         *)
(* Money is counted in whole units.  A percentage is the double            *)
(* (x / d) * 100, kept as the exact fraction [num, den] together with the  *)
(* direction err of its rounding error where that decides a comparison.    *)
(***************************************************************************)
EXTENDS Integers, Sequences, FiniteSets

VARIABLES
    investments,   \* session revision: st.session_state.investments (rows)
    alerts,        \* session revision: st.session_state.alerts (rows)
    user_email,    \* st.session_state.user_email (both revisions)
    chat_history,  \* session revision: number of messages in chat_history
    outbox,        \* session revision: every notification request so far
    runs,          \* number of script runs so far
    csv,           \* CSV revision: rows of investments.csv
    cache,         \* CSV revision: st.cache_data entry of load_investments
    view,          \* CSV revision: what the last script run rendered and sent
    pc,            \* position of the script inside a script run
    ev,            \* pure-function harness: inputs and results
    fc             \* forecast harness: inputs and results

vars == <<investments, alerts, user_email, chat_history, outbox, runs,
          csv, cache, view, pc, ev, fc>>

sessionVars == <<investments, alerts, user_email, chat_history>>
csvVars == <<csv, cache, view>>

----------------------------------------------------------------------------
(* Bounds of the model *)

MaxRuns == 5        \* script runs of the session revision explored
MaxLoads == 5       \* script runs of the CSV revision explored
MaxBuy == 3         \* valuation harness: cost basis 0..MaxBuy
MaxQty == 2         \* valuation harness: quantity 0..MaxQty
MaxQuote == 4       \* valuation harness: quotes 0..MaxQuote
MaxThreshold == 3   \* valuation harness: thresholds -MaxThreshold..MaxThreshold
MaxHist == 22       \* forecast harness: history lengths 0..MaxHist
MaxStocks == 2      \* holdings added
MaxAlerts == 2      \* alert rows created

Symbols == {"AAPL", "MSFT"}
None == -1           \* Python None / a failed fetch (a price is never negative)
NA == -999          \* pd.NA in a column the alert row does not use
NoEmail == ""
SomeEmail == "me@example.com"

Prices == {1, 2, 3}
Quotes == Prices \cup {0, None}

----------------------------------------------------------------------------
(* Fractions and doubles *)

Frac(n, d) == [num |-> n, den |-> d]

Abs(x) == IF x < 0 THEN -x ELSE x

\* 2^n for n >= 0
RECURSIVE Pow2(_)
Pow2(n) == IF n = 0 THEN 1 ELSE 2 * Pow2(n - 1)

\* 2^s modulo 100
RECURSIVE Pow2Mod100(_)
Pow2Mod100(s) == IF s = 0 THEN 1 ELSE (2 * Pow2Mod100(s - 1)) % 100

\* the binary exponent of v / d for v, d >= 1: the j with 2^j <= v/d < 2^(j+1)
RECURSIVE ExpUp(_, _, _)
ExpUp(v, d, j) == IF Pow2(j + 1) * d <= v THEN ExpUp(v, d, j + 1) ELSE j

RECURSIVE ExpDown(_, _, _)
ExpDown(v, d, j) == IF v * Pow2(-j) < d THEN ExpDown(v, d, j - 1) ELSE j

Exponent(v, d) == IF v >= d THEN ExpUp(v, d, 0) ELSE ExpDown(v, d, 0)

\* IEEE double arithmetic of (x / d) * 100 when the exact result is the whole
\* number v >= 1: the quotient v/100 is rounded to 53 bits, the product with
\* 100 is rounded again.  With s the scale of the quotient's last bit, the
\* rounded quotient times 100 misses v * 2^s by r, and the second rounding
\* returns to v unless r is more than half a unit of v's last bit.
\* The result is 1, 0 or -1 as the double is above, equal to or below v.
RoundErr(v) ==
    IF v = 0 THEN 0
    ELSE LET j == Exponent(v, 100)
             k == Exponent(v, 1)
             res == ((v % 100) * Pow2Mod100(52 - j)) % 100
             r == IF res < 50 THEN -res ELSE 100 - res
             U == Pow2(k - j)
             Ubelow == IF v = Pow2(k) THEN U \div 2 ELSE U
         IN  IF r > 0 THEN (IF 2 * r > U THEN 1 ELSE 0)
             ELSE IF r < 0 THEN (IF 2 * (-r) > Ubelow THEN -1 ELSE 0)
             ELSE 0

\* the double (x / d) * 100 for d >= 0, as the exact fraction x * 100 / d and
\* the direction err of the rounding error.  err is kept where the exact
\* result is a whole number; elsewhere the error is smaller than the distance
\* to every whole threshold and decides no comparison.
\* A division by zero does not raise on the floats of the price feed: x / 0
\* is +inf, -inf or nan by the sign of x, kept here with den = 0.
Times100(x, d) ==
    [num |-> x * 100, den |-> d,
     err |-> IF d > 0 /\ (x * 100) % d = 0
             THEN (IF x < 0 THEN -RoundErr((-x * 100) \div d)
                   ELSE RoundErr((x * 100) \div d))
             ELSE 0]

\* the percentage that is not defined ("no data", nan)
Undefined == Times100(0, 0)

Defined(f) == f.den # 0

\* f >= t for a whole threshold t: +inf exceeds every t, -inf and nan
\* compare false
FracGE(f, t) ==
    IF f.den = 0 THEN f.num > 0
    ELSE IF f.num = t * f.den THEN f.err >= 0
    ELSE f.num > t * f.den

\* f <= t for a whole threshold t
FracLE(f, t) ==
    IF f.den = 0 THEN f.num < 0
    ELSE IF f.num = t * f.den THEN f.err <= 0
    ELSE f.num < t * f.den

\* Python truthiness of a price: None and 0 are falsy
Falsy(cur) == cur = None \/ cur = 0

----------------------------------------------------------------------------
(* Collaborators of the session revision that src/utils.py imports         *)
(* (from utils import send_email, send_whatsapp, get_stock_price,          *)
(* calculate_pnl); their code is not in the repository snapshot, so they   *)
(* follow the specification's Price Source, Valuation and Notifier.        *)

\* Price Source, get_quote: the quote of sym, or None when the fetch fails
get_stock_price(q, sym) == q[sym]

\* Valuation of one holding row at price cur (sections 3 and 4.1); the
\* percentage is P&L / invested x 100 in the doubles of a pandas column
Valuation(r, cur) ==
    IF cur = None
    THEN [symbol |-> r.symbol, current_price |-> None, value |-> 0,
          invested |-> r.buy_price * r.quantity, pnl |-> 0, pnl_pct |-> Undefined]
    ELSE LET value == cur * r.quantity
             invested == r.buy_price * r.quantity
             pnl == value - invested
         IN  [symbol |-> r.symbol, current_price |-> cur, value |-> value,
              invested |-> invested, pnl |-> pnl,
              pnl_pct |-> IF invested = 0 THEN Undefined
                          ELSE Times100(pnl, invested)]

\* calculate_pnl(df): one Valuation per holding row, in row order
calculate_pnl(invs, q) ==
    [i \in 1..Len(invs) |-> Valuation(invs[i], get_stock_price(q, invs[i].symbol))]

\* Notifier, send: delivered only when the channel is up and a recipient is set
send_email(up, recipient) == up /\ recipient # NoEmail

----------------------------------------------------------------------------
(* Positions of a script run *)

\* no script run is under way
Idle == [at |-> "idle", pass |-> "none", i |-> 0, df_pnl |-> <<>>]

\* before the auto-alert block at the end of the script (src/utils.py 205)
AtAuto == [at |-> "auto", pass |-> "none", i |-> 0, df_pnl |-> <<>>]

\* st.rerun() has ended the run; the script runner is about to start the next
AtRerun == [at |-> "rerun", pass |-> "none", i |-> 0, df_pnl |-> <<>>]

\* inside check_alerts(df_pnl) of the given pass, before alert row i
AtRows(pass, df_pnl, i) == [at |-> "rows", pass |-> pass, i |-> i, df_pnl |-> df_pnl]

\* inside the LIVE P&L loop of the CSV revision, before row i
AtLoop(i) == [at |-> "loop", pass |-> "none", i |-> i, df_pnl |-> <<>>]

----------------------------------------------------------------------------
(* Session revision, src/utils.py *)

\* df_pnl.loc[df_pnl['symbol'] == sym, 'pnl_pct'].iloc[0]: the first row of sym
FirstPnlPct(df_pnl, sym) ==
    LET hits == {i \in 1..Len(df_pnl) : df_pnl[i].symbol = sym}
        first == CHOOSE i \in hits : \A j \in hits : i <= j
    IN  df_pnl[first].pnl_pct

\* the drop test of check_alerts (line 47): pnl_pct <= -abs(drop_pct)
DropMet(pnl_pct, drop_pct) == FracLE(pnl_pct, -Abs(drop_pct))

\* the profit test of check_alerts (line 43): pnl_pct >= profit_pct
ProfitMet(pnl_pct, profit_pct) == FracGE(pnl_pct, profit_pct)

\* the price test of check_alerts (line 39): cur >= target_price
PriceMet(cur, target_price) == cur >= target_price

\* does check_alerts build a message for this alert row? (lines 38-48)
\* an undefined pnl_pct (no data) compares false
RowTriggers(row, cur, df_pnl) ==
    IF row.type = "price" THEN PriceMet(cur, row.target_price)
    ELSE LET pnl_pct == FirstPnlPct(df_pnl, row.symbol)
         IN  /\ Defined(pnl_pct)
             /\ IF row.type = "profit" THEN ProfitMet(pnl_pct, row.profit_pct)
                ELSE DropMet(pnl_pct, row.drop_pct)

\* the threshold column the row uses
Threshold(row) ==
    IF row.type = "price" THEN row.target_price
    ELSE IF row.type = "profit" THEN row.profit_pct ELSE row.drop_pct

\* is an alert row evaluated at the fetched price cur? (lines 34-36: skipped
\* when the price is falsy)
RowEvaluated(cur) == ~Falsy(cur)

\* one iteration of the loop of check_alerts (lines 32-53) on alert row i:
\* cur is what get_stock_price(sym) returned, up whether the send goes
\* through; the notification requests it makes (none or one)
AlertRow(als, i, cur, df_pnl, up, email, run, pass) ==
    IF RowEvaluated(cur) /\ RowTriggers(als[i], cur, df_pnl)
    THEN <<[run |-> run, pass |-> pass, rule |-> i,
            symbol |-> als[i].symbol, type |-> als[i].type,
            threshold |-> Threshold(als[i]),
            delivered |-> send_email(up, email)]>>
    ELSE <<>>

\* check_alerts (lines 31-53) from alert row i on: curs[k] is what the fetch
\* of row k returned, ups[k] whether its send goes through
RECURSIVE check_alerts(_, _, _, _, _, _, _, _)
check_alerts(als, df_pnl, curs, ups, email, run, pass, i) ==
    IF i > Len(als) THEN <<>>
    ELSE AlertRow(als, i, curs[i], df_pnl, ups[i], email, run, pass)
         \o check_alerts(als, df_pnl, curs, ups, email, run, pass, i + 1)

\* where the script is after check_alerts of a pass has returned: the manual
\* pass is followed by the rest of the script, the auto pass ends the run
AfterPass(pass) == IF pass = "manual" THEN AtAuto ELSE Idle

\* where the script is once calculate_pnl has returned df_pnl (lines 73-74,
\* 209-210): at the first alert row, or past the loop when there is none
StartPass(pass, df_pnl, als) ==
    IF als = <<>> THEN AfterPass(pass) ELSE AtRows(pass, df_pnl, 1)

\* sum of a column of df_pnl (pandas sum: rows without data add nothing)
RECURSIVE SumPnl(_, _)
SumPnl(df_pnl, i) ==
    IF i > Len(df_pnl) THEN 0 ELSE df_pnl[i].pnl + SumPnl(df_pnl, i + 1)

RECURSIVE SumInvested(_, _)
SumInvested(df_pnl, i) ==
    IF i > Len(df_pnl) THEN 0 ELSE df_pnl[i].invested + SumInvested(df_pnl, i + 1)

\* "Portfolio %" of the dashboard (line 94): 0 when nothing is invested
PortfolioPct(total_pnl, total_invested) ==
    IF total_invested = 0 THEN Times100(0, 1)
    ELSE Times100(total_pnl, total_invested)

\* dashboard totals (lines 92-94)
DashboardTotals(df_pnl) ==
    [total_pnl |-> SumPnl(df_pnl, 1),
     total_invested |-> SumInvested(df_pnl, 1),
     total_pct |-> PortfolioPct(SumPnl(df_pnl, 1), SumInvested(df_pnl, 1))]

\* session-state defaults (lines 15-26); no script run is under way
SessionInit ==
    /\ investments = <<>>
    /\ alerts = <<>>
    /\ user_email = NoEmail
    /\ chat_history = 0
    /\ pc = Idle

\* a script run with no widget pressed (page load or refresh), up to the end
\* of the tabs (lines 15-203); the dashboard's fetches change no state
PageLoad ==
    /\ pc = Idle
    /\ runs < MaxRuns
    /\ runs' = runs + 1
    /\ pc' = AtAuto
    /\ UNCHANGED <<sessionVars, outbox, csvVars, ev, fc>>

\* "Save Email" pressed (lines 64-67), then the script up to the end of the
\* tabs
SaveEmail(e) ==
    /\ pc = Idle
    /\ runs < MaxRuns
    /\ runs' = runs + 1
    /\ user_email' = e
    /\ pc' = AtAuto
    /\ UNCHANGED <<investments, alerts, chat_history, outbox, csvVars, ev, fc>>

\* "Run Alert Check Now" pressed (lines 69-75): without holdings a warning,
\* otherwise calculate_pnl fetches (q: the answers of the Price Source) and
\* check_alerts is entered
RunAlertCheckNow(q) ==
    /\ pc = Idle
    /\ runs < MaxRuns
    /\ runs' = runs + 1
    /\ pc' = IF investments = <<>> THEN AtAuto
             ELSE StartPass("manual", calculate_pnl(investments, q), alerts)
    /\ UNCHANGED <<sessionVars, outbox, csvVars, ev, fc>>

\* the auto-alert block that ends a script run (lines 205-210): with an
\* e-mail and holdings calculate_pnl fetches and check_alerts is entered
AutoAlert(q) ==
    /\ pc = AtAuto
    /\ pc' = IF user_email # NoEmail /\ investments # <<>>
             THEN StartPass("auto", calculate_pnl(investments, q), alerts)
             ELSE Idle
    /\ UNCHANGED <<sessionVars, outbox, runs, csvVars, ev, fc>>

\* one iteration of the loop of check_alerts (lines 32-53): the price of the
\* row's symbol is fetched (cur) and, when the row triggers, the message is
\* sent (up: the send goes through)
CheckAlertRow(cur, up) ==
    /\ pc.at = "rows"
    /\ outbox' = outbox \o AlertRow(alerts, pc.i, cur, pc.df_pnl, up,
                                    user_email, runs, pc.pass)
    /\ pc' = IF pc.i < Len(alerts) THEN AtRows(pc.pass, pc.df_pnl, pc.i + 1)
             ELSE AfterPass(pc.pass)
    /\ UNCHANGED <<sessionVars, runs, csvVars, ev, fc>>

\* "Add" submitted (lines 121-137): the row is appended and st.rerun() ends
\* the run before the auto-alert block
AddInvestment(sym, price, qty) ==
    /\ pc = Idle
    /\ runs < MaxRuns
    /\ Len(investments) < MaxStocks
    /\ runs' = runs + 1
    /\ investments' = Append(investments,
                             [symbol |-> sym, buy_price |-> price, quantity |-> qty])
    /\ pc' = AtRerun
    /\ UNCHANGED <<alerts, user_email, chat_history, outbox, csvVars, ev, fc>>

\* a chat message sent (lines 182-203): the prompt is appended; when it
\* names a holding, the price is fetched and formatted (line 195), which
\* raises on a failed fetch and ends the run; otherwise the answer is
\* appended and st.rerun() ends the run before the auto-alert block
ChatPrompt(mentioned, price) ==
    /\ pc = Idle
    /\ runs < MaxRuns
    /\ mentioned => investments # <<>>
    /\ runs' = runs + 1
    /\ IF mentioned /\ price = None
       THEN /\ chat_history' = chat_history + 1
            /\ pc' = Idle
       ELSE /\ chat_history' = chat_history + 2
            /\ pc' = AtRerun
    /\ UNCHANGED <<investments, alerts, user_email, outbox, csvVars, ev, fc>>

\* the script run that st.rerun() starts (lines 137, 203): no widget is
\* pressed
Rerun ==
    /\ pc = AtRerun
    /\ runs < MaxRuns
    /\ runs' = runs + 1
    /\ pc' = AtAuto
    /\ UNCHANGED <<sessionVars, outbox, csvVars, ev, fc>>

\* the alert row built by "Create Alert" (lines 156-164)
NewAlert(sym, atype, target) ==
    [symbol |-> sym, type |-> atype,
     target_price |-> IF atype = "price" THEN target ELSE NA,
     profit_pct |-> IF atype = "profit" THEN target ELSE NA,
     drop_pct |-> IF atype = "drop" THEN target ELSE NA]

\* the Alert Rule Store after "Create Alert": pd.concat appends the row
\* (lines 165-166)
AddAlertRow(als, new) == Append(als, new)

\* "Create Alert" pressed (lines 140-167): the row is appended, the script
\* goes on to the auto-alert block
CreateAlert(sym, atype, target) ==
    /\ pc = Idle
    /\ runs < MaxRuns
    /\ Len(alerts) < MaxAlerts
    /\ investments # <<>>
    /\ \E i \in 1..Len(investments) : investments[i].symbol = sym
    /\ runs' = runs + 1
    /\ alerts' = AddAlertRow(alerts, NewAlert(sym, atype, target))
    /\ pc' = AtAuto
    /\ UNCHANGED <<investments, user_email, chat_history, outbox, csvVars, ev, fc>>

----------------------------------------------------------------------------
(* CSV revision, src/app.py *)

\* load_investments has no live cache entry
NoCache == [live |-> FALSE, df |-> <<>>]

\* the cache entry holding frame df
Cached(df) == [live |-> TRUE, df |-> df]

\* load_investments (lines 80-95): the cached frame while the entry lives,
\* otherwise the rows of investments.csv (no rows when the file is missing)
load_investments(c, file) == IF c.live THEN c.df ELSE file

\* save_investments (lines 98-99)
save_investments(df) == df

\* send_alert_email (lines 28-54): False without a recipient or on any error
send_alert_email(up, recipient) == recipient # NoEmail /\ up

\* mutant of ProfitPct: the gain is taken relative to the current price
ProfitPctOfPrice(price, buy_price) == Times100(price - buy_price, price)

\* the profit percentage of the alert check (line 302):
\* ((price - buy_price) / buy_price) * 100 in doubles
ProfitPct(price, buy_price) == Times100(price - buy_price, buy_price)

\* the drop percentage of the alert check (line 305):
\* ((buy_price - price) / buy_price) * 100 in doubles
DropPct(price, buy_price) == Times100(buy_price - price, buy_price)

\* line 299
TargetHit(r, price) == price >= r.target_price

\* line 302
ProfitHit(r, price) == FracGE(ProfitPct(price, r.buy_price), r.profit_pct)

\* line 305
DropHit(r, price) == FracGE(DropPct(price, r.buy_price), r.drop_pct)

\* market value of a row (line 293)
RowValue(r, price) == price * r.qty

\* invested value of a row (lines 288 and 295)
RowInvested(r) == r.buy_price * r.qty

\* P&L of a row (line 295)
RowPnl(r, price) == RowValue(r, price) - RowInvested(r)

\* the alert kinds sent for a fetched row, in order (lines 298-307); price
\* is a numpy float, so the division by a buy_price of 0 gives an infinite
\* (or nan) percentage instead of raising
RowAlerts(r, price) ==
    (IF TargetHit(r, price) THEN <<"price">> ELSE <<>>)
    \o (IF ProfitHit(r, price) THEN <<"profit">> ELSE <<>>)
    \o (IF DropHit(r, price) THEN <<"drop">> ELSE <<>>)

\* does the try block of a row raise? (lines 291-309): only when the fetch
\* fails; the sends catch their own errors (lines 29-54, 61-74)
RowRaises(r, price) == price = None

\* one iteration of the LIVE P&L loop (lines 290-309) at the fetched price
RowStep(r, price) ==
    IF price = None
    THEN [price |-> None, fetched |-> FALSE, value |-> 0, pnl |-> 0,
          kinds |-> <<>>, flagged |-> TRUE]
    ELSE [price |-> price, fetched |-> TRUE, value |-> RowValue(r, price),
          pnl |-> RowPnl(r, price), kinds |-> RowAlerts(r, price),
          flagged |-> RowRaises(r, price)]

\* the threshold column of an alert kind
RowThreshold(r, kind) ==
    IF kind = "price" THEN r.target_price
    ELSE IF kind = "profit" THEN r.profit_pct ELSE r.drop_pct

\* notification requests of one row (lines 299-307); ups[k] tells whether
\* the k-th send of the row goes through
RowNotes(r, i, st, ups, email, run) ==
    [k \in 1..Len(st.kinds) |->
        [run |-> run, pass |-> "live", rule |-> <<i, st.kinds[k]>>,
         symbol |-> r.ticker, type |-> st.kinds[k],
         threshold |-> RowThreshold(r, st.kinds[k]),
         delivered |-> send_alert_email(ups[k], email)]]

\* the request of the "Test Email" button (lines 222-223)
TestNote(up, email, run) ==
    [run |-> run, pass |-> "test", rule |-> <<0, "test">>,
     symbol |-> "TEST", type |-> "test", threshold |-> 0,
     delivered |-> send_alert_email(up, email)]

\* total_current (lines 289-294): the values of the rows fetched so far
RECURSIVE TotalCurrent(_, _)
TotalCurrent(steps, i) ==
    IF i > Len(steps) THEN 0
    ELSE (IF steps[i].fetched THEN steps[i].value ELSE 0)
         + TotalCurrent(steps, i + 1)

\* total_invest (line 288): every row, fetched or not
RECURSIVE TotalInvest(_, _)
TotalInvest(df, i) ==
    IF i > Len(df) THEN 0 ELSE RowInvested(df[i]) + TotalInvest(df, i + 1)

\* mutant of LoopNext: the try block encloses the whole loop, so the first
\* failed fetch ends it
LoopNextAborting(df, i, st) == IF st.fetched /\ i < Len(df) THEN i + 1 ELSE 0

\* the row the loop turns to after row i (line 290), 0 when it is over
LoopNext(df, i, st) == IF i < Len(df) THEN i + 1 ELSE 0

\* what a script run has rendered and sent when it reaches the LIVE P&L
\* block with frame df (lines 267-289); first: requests already made
StartRender(df, first, run) ==
    [run |-> run, rows |-> df, sent |-> first, steps |-> <<>>,
     total_shown |-> FALSE, total_pnl |-> 0]

\* where the script is after line 286: in the loop, or done for an empty frame
StartLoop(df) == IF df = <<>> THEN Idle ELSE AtLoop(1)

\* the file does not exist and nothing is cached or rendered yet
CsvInit ==
    /\ csv = <<>>
    /\ cache = NoCache
    /\ view = StartRender(<<>>, <<>>, 0)

\* a script run with the form not submitted (lines 213-289): page load,
\* refresh, or a change of the e-mail field; the frame is loaded and the
\* flow chart drawn (its fetches change no state)
LoadPage(e) ==
    /\ pc = Idle
    /\ runs < MaxLoads
    /\ runs' = runs + 1
    /\ user_email' = e
    /\ LET df == load_investments(cache, csv)
       IN  /\ cache' = Cached(df)
           /\ view' = StartRender(df, <<>>, runs + 1)
           /\ pc' = StartLoop(df)
    /\ UNCHANGED <<csv, investments, alerts, chat_history, outbox, ev, fc>>

\* "Test Email" pressed (lines 222-223): the test message is sent (up: the
\* send goes through), then the script goes on as on a page load
TestEmail(up) ==
    /\ pc = Idle
    /\ runs < MaxLoads
    /\ runs' = runs + 1
    /\ LET df == load_investments(cache, csv)
       IN  /\ cache' = Cached(df)
           /\ view' = StartRender(df, <<TestNote(up, user_email, runs + 1)>>,
                                  runs + 1)
           /\ pc' = StartLoop(df)
    /\ UNCHANGED <<csv, sessionVars, outbox, ev, fc>>

\* one iteration of the LIVE P&L loop (lines 290-309): the price of the row
\* is fetched (None: the fetch fails) and the alerts that are met are sent;
\* after the last row the total is shown (line 311)
LoopRow(price, ups) ==
    /\ pc.at = "loop"
    /\ LET i == pc.i
           r == view.rows[i]
           st == RowStep(r, price)
           steps == Append(view.steps, st)
           nxt == LoopNext(view.rows, i, st)
       IN  /\ view' = [view EXCEPT
                         !.steps = steps,
                         !.sent = view.sent
                                  \o RowNotes(r, i, st, ups, user_email, view.run),
                         !.total_shown = (nxt = 0),
                         !.total_pnl = IF nxt = 0
                                       THEN TotalCurrent(steps, 1)
                                            - TotalInvest(view.rows, 1)
                                       ELSE 0]
           /\ pc' = IF nxt = 0 THEN Idle ELSE AtLoop(nxt)
    /\ UNCHANGED <<csv, cache, sessionVars, outbox, runs, ev, fc>>

\* "Add Stock" submitted (lines 229-258): the frame load_investments returns
\* plus the new row is saved, and st.rerun() ends the run before anything is
\* rendered
AddStock(row) ==
    /\ pc = Idle
    /\ runs < MaxLoads
    /\ Len(csv) < MaxStocks
    /\ runs' = runs + 1
    /\ LET df == load_investments(cache, csv)
       IN  /\ csv' = save_investments(Append(df, row))
           /\ cache' = Cached(df)
    /\ pc' = AtRerun
    /\ UNCHANGED <<view, sessionVars, outbox, ev, fc>>

\* the script run that st.rerun() starts (line 258): it loads the frame
\* (line 267) and goes on as on a page load
RerunCsv ==
    /\ pc = AtRerun
    /\ runs < MaxLoads
    /\ runs' = runs + 1
    /\ LET df == load_investments(cache, csv)
       IN  /\ cache' = Cached(df)
           /\ view' = StartRender(df, <<>>, runs + 1)
           /\ pc' = StartLoop(df)
    /\ UNCHANGED <<csv, sessionVars, outbox, ev, fc>>

\* the cache entry of load_investments outlives its ttl of 300 s (line 80)
CacheExpire ==
    /\ cache.live
    /\ cache' = NoCache
    /\ UNCHANGED <<csv, view, pc, sessionVars, outbox, runs, ev, fc>>

----------------------------------------------------------------------------
(* Inputs and the specification of the session revision *)

Emails == {NoEmail, SomeEmail}
BuyPrices == {1, 2}          \* number_input "Buy price", min_value 0.01
Quantities == {1, 2}         \* number_input "Quantity", min_value 0.01
AlertTypes == {"price", "profit", "drop"}
Targets == {2, 50}           \* number_input of "Create Alert", min_value 0.01

\* the answers of the Price Source to the fetches of one calculate_pnl
QuoteAnswers == [Symbols -> Quotes]

\* harness values of the variables a specification does not use
EvIdle == [pc |-> "idle"]
FcIdle == [pc |-> "idle"]

EnvInit ==
    /\ outbox = <<>>
    /\ runs = 0

Init ==
    /\ SessionInit
    /\ EnvInit
    /\ CsvInit
    /\ ev = EvIdle
    /\ fc = FcIdle

Next ==
    \/ PageLoad
    \/ \E e \in Emails : SaveEmail(e)
    \/ \E q \in QuoteAnswers : RunAlertCheckNow(q)
    \/ \E q \in QuoteAnswers : AutoAlert(q)
    \/ \E cur \in Quotes, up \in BOOLEAN : CheckAlertRow(cur, up)
    \/ \E sym \in Symbols, price \in BuyPrices, qty \in Quantities :
          AddInvestment(sym, price, qty)
    \/ \E sym \in Symbols, atype \in AlertTypes, target \in Targets :
          CreateAlert(sym, atype, target)
    \/ \E mentioned \in BOOLEAN, price \in Quotes : ChatPrompt(mentioned, price)
    \/ Rerun

Spec == Init /\ [][Next]_vars

----------------------------------------------------------------------------
(* Inputs and the specification of the CSV revision *)

\* the three alert inputs of the "Add Stock" form (lines 233-237); none has
\* a minimum, so a threshold may be negative
HighThresholds == [target_price |-> 3, profit_pct |-> 50, drop_pct |-> 50]
LowThresholds == [target_price |-> 2, profit_pct |-> 20, drop_pct |-> -5]

\* rows the form can submit: Buy Price min_value 0.01, Quantity min_value 1
CsvRow(s, n, t) ==
    [ticker |-> s, buy_price |-> 2, qty |-> n, target_price |-> t.target_price,
     profit_pct |-> t.profit_pct, drop_pct |-> t.drop_pct]

CsvRows ==
    {CsvRow("AAPL", 1, HighThresholds), CsvRow("AAPL", 2, LowThresholds),
     CsvRow("MSFT", 2, HighThresholds), CsvRow("MSFT", 1, LowThresholds)}

\* whether the first, second and third send of a row go through
Deliveries == [1..3 -> BOOLEAN]

InitCsv ==
    /\ SessionInit
    /\ EnvInit
    /\ CsvInit
    /\ ev = EvIdle
    /\ fc = FcIdle

NextCsv ==
    \/ \E e \in Emails : LoadPage(e)
    \/ \E up \in BOOLEAN : TestEmail(up)
    \/ \E row \in CsvRows : AddStock(row)
    \/ RerunCsv
    \/ \E price \in Quotes, ups \in Deliveries : LoopRow(price, ups)
    \/ CacheExpire

SpecCsv == InitCsv /\ [][NextCsv]_vars

----------------------------------------------------------------------------
(* Valuation harness: one holding, one quote and one alert rule are drawn, *)
(* then the loop body of the CSV revision and, for a holding and rule the  *)
(* session revision can hold, its check_alerts are applied to them in turn. *)

EvalBuy == (0..MaxBuy) \cup {100}
EvalQty == (0..MaxQty) \cup {10}
EvalQuotes == (0..MaxQuote) \cup {71, 88, 92, 120, 129, None}
EvalThresholds == ((-MaxThreshold)..MaxThreshold) \cup {-5, 10, 15, 20, 29, 50}

\* what the session revision can hold: its number inputs have min_value 0.01
\* (src/utils.py lines 123, 124, 149, 152), so cost basis, quantity and
\* threshold are positive
SessionBuy == {b \in EvalBuy : b >= 1}
SessionQty == {n \in EvalQty : n >= 1}
SessionThresholds == {t \in EvalThresholds : t >= 1}

SessionInput(e) ==
    /\ e.buy_price \in SessionBuy
    /\ e.qty \in SessionQty
    /\ e.t \in SessionThresholds

\* the CSV row of the harness: the drawn threshold in all three columns.
\* The thresholds of the form have no minimum (src/app.py lines 233-237);
\* investments.csv is read as it stands (line 83), so a row written outside
\* the form may hold a cost basis or quantity of 0
EvalRow(e) ==
    [ticker |-> "AAPL", buy_price |-> e.buy_price, qty |-> e.qty,
     target_price |-> e.t, profit_pct |-> e.t, drop_pct |-> e.t]

\* the session holding and alert row of the harness, for a SessionInput
EvalHolding(e) == [symbol |-> "AAPL", buy_price |-> e.buy_price, quantity |-> e.qty]
EvalAlert(e) == NewAlert("AAPL", e.kind, e.t)
EvalQuote(e) == [s \in Symbols |-> e.price]

Range(seq) == {seq[i] : i \in DOMAIN seq}

\* the harnesses make no script run
EnvIdle ==
    /\ outbox = <<>>
    /\ runs = 0

InitEval ==
    /\ SessionInit
    /\ EnvIdle
    /\ CsvInit
    /\ fc = FcIdle
    /\ \E b \in EvalBuy, n \in EvalQty, p \in EvalQuotes, k \in AlertTypes,
          t \in EvalThresholds :
          ev = [pc |-> "input", buy_price |-> b, qty |-> n, price |-> p,
                kind |-> k, t |-> t,
                live |-> RowStep(EvalRow([buy_price |-> 1, qty |-> 1, t |-> 0]), None),
                livePct |-> Undefined, liveDropPct |-> Undefined,
                liveInvested |-> 0, liveRaised |-> FALSE,
                liveHit |-> FALSE,
                checkVal |-> Valuation(EvalHolding([buy_price |-> 1, qty |-> 1]), None),
                checkHit |-> FALSE, checkEvaluated |-> FALSE,
                totals |-> DashboardTotals(<<>>)]

\* the loop body of the CSV revision on the drawn row (src/app.py 290-309)
EvalLive ==
    /\ ev.pc = "input"
    /\ LET r == EvalRow(ev)
           st == RowStep(r, ev.price)
       IN  ev' = [ev EXCEPT
                    !.pc = "live",
                    !.live = st,
                    !.liveInvested = RowInvested(r),
                    !.liveRaised = RowRaises(r, ev.price),
                    !.livePct = IF RowRaises(r, ev.price) THEN Undefined
                                ELSE ProfitPct(ev.price, r.buy_price),
                    !.liveDropPct = IF RowRaises(r, ev.price) THEN Undefined
                                    ELSE DropPct(ev.price, r.buy_price),
                    !.liveHit = ev.kind \in Range(st.kinds)]
    /\ UNCHANGED <<sessionVars, pc, outbox, runs, csvVars, fc>>

\* calculate_pnl, check_alerts and the dashboard totals of the session
\* revision on the same holding (src/utils.py 31-53, 88-94), when the
\* session revision can hold it
EvalCheck ==
    /\ ev.pc = "live"
    /\ SessionInput(ev)
    /\ LET invs == <<EvalHolding(ev)>>
           q == EvalQuote(ev)
           df_pnl == calculate_pnl(invs, q)
       IN  ev' = [ev EXCEPT
                    !.pc = "done",
                    !.checkVal = df_pnl[1],
                    !.checkEvaluated = RowEvaluated(ev.price),
                    !.checkHit = check_alerts(<<EvalAlert(ev)>>, df_pnl,
                                               <<ev.price>>, <<TRUE>>,
                                               SomeEmail, 0, "manual", 1) # <<>>,
                    !.totals = DashboardTotals(df_pnl)]
    /\ UNCHANGED <<sessionVars, pc, outbox, runs, csvVars, fc>>

NextEval == EvalLive \/ EvalCheck

SpecEval == InitEval /\ [][NextEval]_vars

----------------------------------------------------------------------------
(* Claims *)

\* two notification requests for the same alert row
SameRule(a, b) == a.rule = b.rule

\* C1: a rule that has triggered in one evaluation cycle produces no second
\* notification in the next cycle (the code has no reset, so none intervenes):
\* no rule is notified in two consecutive script runs.
C1_NoSecondAlert ==
    \A i, j \in DOMAIN outbox :
        ~(SameRule(outbox[i], outbox[j]) /\ outbox[j].run = outbox[i].run + 1)

\* the (symbol, kind, threshold) key of an alert row
RuleKey(row) == <<row.symbol, row.type, Threshold(row)>>

\* C2: creating a rule whose (symbol, kind, threshold) already exists leaves
\* one logical rule: no two rows of the Alert Rule Store share a key, and no
\* pass sends two notifications for one key.
C2_OneLogicalRule ==
    /\ \A i, j \in DOMAIN alerts :
          RuleKey(alerts[i]) = RuleKey(alerts[j]) => i = j
    /\ \A i, j \in DOMAIN outbox :
          (/\ outbox[i].run = outbox[j].run
           /\ outbox[i].pass = outbox[j].pass
           /\ RuleKey(alerts[outbox[i].rule]) = RuleKey(alerts[outbox[j].rule]))
          => i = j

\* the percentage the valuation defines: P&L / invested x 100, a double
ClaimedPnlPct(buy_price, qty, price) ==
    Times100(price * qty - buy_price * qty, buy_price * qty)

\* the trigger rule of the Alert Evaluator (section 4.3)
ClaimedTrigger(kind, t, price, pnl_pct) ==
    IF kind = "price" THEN price >= t
    ELSE IF kind = "profit" THEN FracGE(pnl_pct, t)
    ELSE FracLE(pnl_pct, -t)

\* the alert kinds of a CSV row that the trigger rule says are met
ClaimedKinds(r, price) ==
    {k \in AlertTypes :
        ClaimedTrigger(k, RowThreshold(r, k), price,
                       ClaimedPnlPct(r.buy_price, r.qty, price))}

\* the requests of the last run that belong to row i
SentFor(i) == {k \in DOMAIN view.sent : view.sent[k].rule[1] = i}

\* C3: in every cycle of the LIVE P&L loop, a row whose price fetch failed
\* is flagged and none of its rules is evaluated or notified, while every
\* other row of the cycle is valuated at the price fetched for it and
\* exactly its met rules are notified; the pass covers every row (once the
\* loop is over, every row has had its iteration).
C3_PriceFailureIsolated ==
    /\ pc.at # "loop" => Len(view.steps) = Len(view.rows)
    /\ \A i \in DOMAIN view.steps :
          LET r == view.rows[i]
              st == view.steps[i]
              p == st.price
          IN  IF p = None
              THEN /\ st.flagged /\ ~st.fetched
                   /\ st.kinds = <<>>
                   /\ SentFor(i) = {}
              ELSE /\ st.fetched /\ ~st.flagged
                   /\ st.value = p * r.qty
                   /\ Range(st.kinds) = ClaimedKinds(r, p)
                   /\ {view.sent[k].type : k \in SentFor(i)} = ClaimedKinds(r, p)

\* C3 witness: a finished cycle over two rows in which the fetch of the
\* first row failed and the row after it was valuated and notified
C3_Witness ==
    /\ pc = Idle
    /\ \E i, j \in DOMAIN view.steps :
          /\ i < j
          /\ view.steps[i].price = None
          /\ view.steps[i].flagged
          /\ view.steps[j].price # None
          /\ view.steps[j].fetched
          /\ SentFor(j) # {}

\* the percentage of the Valuation as a real number: P&L / invested x 100
ExactPnlPct(buy_price, qty, price) ==
    [num |-> (price * qty - buy_price * qty) * 100, den |-> buy_price * qty,
     err |-> 0]

\* C4: for a valuation with a defined pnl_pct (a quote was returned, 0
\* included, and the invested value is not zero), both alert checks decide
\* as the trigger rule says: PriceAbove(t) at price >= t, ProfitPctAbove(t)
\* at pnl_pct >= t, DropPctAbove(t) at pnl_pct <= -t, for every threshold
\* the revision lets a user enter; DropPctAbove(10) triggers at -12 and not
\* at -8.
C4_AlertChecksAgree ==
    (/\ ev.pc \in {"live", "done"}
     /\ ev.price # None
     /\ ev.buy_price > 0
     /\ ev.qty > 0)
    => LET pnl_pct == ExactPnlPct(ev.buy_price, ev.qty, ev.price)
           claimed == ClaimedTrigger(ev.kind, ev.t, ev.price, pnl_pct)
       IN  /\ ev.liveHit = claimed
           /\ (ev.pc = "done" => ev.checkHit = claimed)
           /\ (ev.kind = "drop" /\ ev.t = 10 /\ ev.buy_price = 100 =>
                  /\ (ev.price = 88 => ev.liveHit)
                  /\ (ev.price = 92 => ~ev.liveHit)
                  /\ (ev.pc = "done" /\ ev.price = 88 => ev.checkHit)
                  /\ (ev.pc = "done" /\ ev.price = 92 => ~ev.checkHit))

\* equality of two fractions with non-zero denominators
FracEq(f, g) == f.num * g.den = g.num * f.den

\* the same double: the same exact value, rounded the same way
SameDouble(f, g) == FracEq(f, g) /\ f.err = g.err

\* the double of a whole number
Whole(v) == [num |-> v, den |-> 1, err |-> 0]

\* C5: for positive quantity and cost basis, market value = price x
\* quantity, invested = cost x quantity, P&L = market value - invested, and
\* the percentages the profit and drop checks use are P&L / invested x 100
\* and its negation; qty 10, cost 100, quote 120 give 1200, 1000, 200, 20.
C5_ValuationArithmetic ==
    (/\ ev.pc \in {"live", "done"}
     /\ ev.price # None
     /\ ev.buy_price > 0
     /\ ev.qty > 0)
    => /\ ev.live.value = ev.price * ev.qty
       /\ ev.liveInvested = ev.buy_price * ev.qty
       /\ ev.live.pnl = ev.live.value - ev.liveInvested
       /\ Defined(ev.livePct) /\ ev.livePct.den > 0
       /\ SameDouble(ev.livePct, Times100(ev.live.pnl, ev.liveInvested))
       /\ SameDouble(ev.liveDropPct, Times100(-ev.live.pnl, ev.liveInvested))
       /\ (ev.pc = "done" =>
              /\ ev.checkVal.value = ev.live.value
              /\ ev.checkVal.pnl = ev.live.pnl
              /\ SameDouble(ev.checkVal.pnl_pct, ev.livePct))
       /\ (ev.qty = 10 /\ ev.buy_price = 100 /\ ev.price = 120 =>
              /\ ev.live.value = 1200
              /\ ev.liveInvested = 1000
              /\ ev.live.pnl = 200
              /\ SameDouble(ev.livePct, Whole(20)))

\* C5 witness: the scenario qty 10, cost 100, quote 120 has been valuated
C5_Witness ==
    /\ ev.pc = "done"
    /\ ev.qty = 10 /\ ev.buy_price = 100 /\ ev.price = 120
    /\ ev.live.pnl = 200

\* C6: with an invested value of zero the valuation does not divide by zero,
\* raise or report a failed fetch, the percentage is the undefined sentinel,
\* and profit and drop rules do not trigger.
C6_ZeroInvestedUndefined ==
    (/\ ev.pc = "live"
     /\ ev.price # None
     /\ ev.liveInvested = 0)
    => /\ ~ev.liveRaised
       /\ ~ev.live.flagged
       /\ ev.livePct = Undefined
       /\ (ev.kind \in {"profit", "drop"} => ~ev.liveHit)

\* C7: once the delivery of a triggered alert has failed, no later script
\* run sends a notification for that rule again.
C7_FailedDeliveryNotRetried ==
    \A i, j \in DOMAIN outbox :
        (/\ SameRule(outbox[i], outbox[j])
         /\ ~outbox[i].delivered
         /\ outbox[i].run < outbox[j].run)
        => FALSE

\* C8: within one script run, at most one of the two passes (manual and
\* automatic) triggers a given rule.
C8_OnePassTriggers ==
    \A i, j \in DOMAIN outbox :
        (/\ SameRule(outbox[i], outbox[j])
         /\ outbox[i].run = outbox[j].run)
        => outbox[i].pass = outbox[j].pass

----------------------------------------------------------------------------
(* Forecasting.  A date is a day number; day d falls on weekday d % 7,     *)
(* 0 = Monday .. 4 = Friday, 5 and 6 the weekend.                          *)

BusinessDay(d) == d % 7 < 5

NextBusinessDay(d) ==
    IF BusinessDay(d + 1) THEN d + 1
    ELSE IF BusinessDay(d + 2) THEN d + 2 ELSE d + 3

PrevBusinessDay(d) ==
    IF BusinessDay(d - 1) THEN d - 1
    ELSE IF BusinessDay(d - 2) THEN d - 2 ELSE d - 3

\* the dates of n daily closes ending on day last (the Price Source's
\* history: one sample per trading day)
RECURSIVE HistoryDates(_, _)
HistoryDates(n, last) ==
    IF n = 0 THEN <<>>
    ELSE Append(HistoryDates(n - 1, PrevBusinessDay(last)), last)

\* Prophet.fit raises ValueError on fewer than 2 rows (src/app.py line 178)
MinProphetRows == 2

\* periods of make_future_dataframe (src/app.py line 179) and the horizon of
\* the dashboard's forecast selector (src/utils.py line 106)
Horizon == 30

\* Prophet.make_future_dataframe(periods): the history dates followed by the
\* next `periods` calendar days (freq "D", include_history True)
make_future_dataframe(dates, periods) ==
    dates \o [k \in 1..periods |-> dates[Len(dates)] + k]

\* what yf.Ticker(ticker).news[:3] gives (src/app.py lines 168-172): items
\* with a "title", no items, items without a "title" key, or a failed fetch
NewsCases == {"titled", "empty", "untitled", "unreachable"}

\* does the news block raise? (lines 168-173): the fetch fails, or
\* item["title"] is a KeyError; no items give a sentiment of 0
NewsRaises(news) == news \in {"untitled", "unreachable"}

\* predict_with_sentiment (src/app.py lines 160-184): the "ds" column of the
\* returned forecast, or (None, 0) when anything in lines 162-182 raised;
\* the yhat column is Prophet's fit and is not modelled
predict_with_sentiment(dates, news) ==
    IF NewsRaises(news) \/ Len(dates) < MinProphetRows
    THEN [ok |-> FALSE, ds |-> <<>>]
    ELSE [ok |-> TRUE, ds |-> make_future_dataframe(dates, Horizon)]

\* minimum history of the Forecaster (section 4.4)
MinHistory == 20

RECURSIVE Gcd(_, _)
Gcd(a, b) == IF b = 0 THEN a ELSE Gcd(b, a % b)

\* a fraction with positive denominator in lowest terms
Reduce(f) ==
    LET g == Gcd(Abs(f.num), f.den)
    IN  Frac(f.num \div g, f.den \div g)

RECURSIVE SumTo(_, _, _)
\* sum of F(i, y[i]) for the samples i..Len(y), with x = i - 1 the time index
SumTo(y, i, kind) ==
    IF i > Len(y) THEN 0
    ELSE (CASE kind = "y" -> y[i]
            [] kind = "x" -> i - 1
            [] kind = "xy" -> (i - 1) * y[i]
            [] kind = "xx" -> (i - 1) * (i - 1))
         + SumTo(y, i + 1, kind)

\* ordinary least squares over (time index, close): the fitted value at x as
\* an exact fraction (section 4.4)
OlsAt(y, x) ==
    LET n == Len(y)
        Sx == SumTo(y, 1, "x")
        Sy == SumTo(y, 1, "y")
        Sxy == SumTo(y, 1, "xy")
        Sxx == SumTo(y, 1, "xx")
        D == n * Sxx - Sx * Sx
        N == n * Sxy - Sx * Sy
    IN  Reduce(Frac(Sy * D - N * Sx + N * n * x, n * D))

\* a point estimate written over ten times its denominator, so that the
\* band shares the denominator
Tenths(yhat) == Frac(10 * yhat.num, 10 * yhat.den)

\* the fixed +/-10% band around a point estimate (section 4.4): 0.9 and 1.1
\* times the estimate
BandLower(yhat) == Frac(9 * yhat.num, 10 * yhat.den)
BandUpper(yhat) == Frac(11 * yhat.num, 10 * yhat.den)

\* the k-th business day after day d
RECURSIVE BusinessDayAfter(_, _)
BusinessDayAfter(d, k) ==
    IF k = 0 THEN d ELSE NextBusinessDay(BusinessDayAfter(d, k - 1))

\* forecast_stock(symbol, horizon) of the session revision (imported by
\* src/utils.py, called at line 106), after section 4.4
forecast_stock(dates, y, horizon) ==
    IF Len(y) < MinHistory THEN [ok |-> FALSE, points |-> <<>>]
    ELSE [ok |-> TRUE,
          points |-> [k \in 1..horizon |->
              LET yhat == OlsAt(y, Len(y) - 1 + k)
              IN  [ds |-> BusinessDayAfter(dates[Len(dates)], k),
                   yhat |-> Tenths(yhat),
                   yhat_lower |-> BandLower(yhat),
                   yhat_upper |-> BandUpper(yhat)]]]

\* closes of the harness: a line from `a` with slope b and a zigzag of z
Closes(n, a, b, z) == [i \in 1..n |-> a + b * (i - 1) + z * ((i - 1) % 2)]

\* a week of possible last trading days, Monday 700 .. Friday 704
LastDays == {d \in 700..706 : BusinessDay(d)}

InitForecast ==
    /\ SessionInit
    /\ EnvIdle
    /\ CsvInit
    /\ ev = EvIdle
    /\ \E n \in 0..MaxHist, last \in LastDays, a \in {30, 60},
          b \in {-2, -1, 0, 1}, z \in {0, 3}, news \in NewsCases :
          /\ \A i \in 1..n : Closes(n, a, b, z)[i] >= 1
          /\ fc = [pc |-> "input", dates |-> HistoryDates(n, last),
                   y |-> Closes(n, a, b, z), news |-> news,
                   prophet |-> predict_with_sentiment(<<>>, "empty"),
                   ols |-> forecast_stock(<<>>, <<>>, Horizon)]

\* "Predict" pressed in the CSV revision (src/app.py lines 316-330)
Predict ==
    /\ fc.pc = "input"
    /\ fc' = [fc EXCEPT !.pc = "predicted",
                        !.prophet = predict_with_sentiment(fc.dates, fc.news)]
    /\ UNCHANGED <<sessionVars, pc, outbox, runs, csvVars, ev>>

\* the dashboard's forecast selector in the session revision (src/utils.py
\* lines 104-116)
ForecastSelector ==
    /\ fc.pc = "predicted"
    /\ fc' = [fc EXCEPT !.pc = "done",
                        !.ols = forecast_stock(fc.dates, fc.y, Horizon)]
    /\ UNCHANGED <<sessionVars, pc, outbox, runs, csvVars, ev>>

NextForecast == Predict \/ ForecastSelector

SpecForecast == InitForecast /\ [][NextForecast]_vars

\* exactly horizon points, all business days, contiguous from the first
\* business day after the last sample
ForecastDatesOk(ds, last, horizon) ==
    /\ Len(ds) = horizon
    /\ \A k \in DOMAIN ds : ds[k] > last /\ BusinessDay(ds[k])
    /\ \A k \in DOMAIN ds :
          ds[k] = NextBusinessDay(IF k = 1 THEN last ELSE ds[k - 1])

\* C9: the forecast fails when the history has fewer than MinHistory (20)
\* samples; otherwise it succeeds with exactly Horizon points dated after
\* the last sample, on business days only, contiguous.
C9_ForecastContract ==
    fc.pc \in {"predicted", "done"} =>
        IF Len(fc.dates) < MinHistory THEN ~fc.prophet.ok
        ELSE /\ fc.prophet.ok
             /\ ForecastDatesOk(fc.prophet.ds, fc.dates[Len(fc.dates)], Horizon)

\* f <= g for fractions with positive denominators
FracLEq(f, g) ==
    IF f.den = g.den THEN f.num <= g.num ELSE f.num * g.den <= g.num * f.den

\* C10: every point of an accepted forecast has lower <= point estimate <=
\* upper, also when the fitted line has fallen to zero or below.
C10_BandBrackets ==
    (fc.pc = "done" /\ fc.ols.ok) =>
        \A k \in DOMAIN fc.ols.points :
            LET pt == fc.ols.points[k]
            IN  /\ FracLEq(pt.yhat_lower, pt.yhat)
                /\ FracLEq(pt.yhat, pt.yhat_upper)

----------------------------------------------------------------------------
(* Persistence and the portfolio total of the CSV revision *)

\* df is an initial segment of after
IsPrefix(df, after) ==
    /\ Len(df) <= Len(after)
    /\ SubSeq(after, 1, Len(df)) = df

\* C11: an "Add Stock" submission never drops a position saved before it
\* (investments.csv keeps its rows and gains the new one), and the render
\* that follows the submission lists the persisted holdings, also while
\* load_investments still answers from its cache entry.
C11_AddKeepsSaved ==
    [][/\ IsPrefix(csv, csv')
       /\ (pc.at = "rerun" /\ pc'.at # "rerun" => view'.rows = csv')]_vars

\* the P&L of the rows whose price was fetched, from row i on
RECURSIVE FetchedPnl(_, _)
FetchedPnl(steps, i) ==
    IF i > Len(steps) THEN 0
    ELSE (IF steps[i].fetched THEN steps[i].pnl ELSE 0) + FetchedPnl(steps, i + 1)

\* C12: the displayed "Total P&L" of a script run is the sum of the P&L of
\* the rows whose price was fetched; a row whose quote failed adds neither
\* its value nor its invested amount.
C12_TotalOverFetched ==
    view.total_shown => view.total_pnl = FetchedPnl(view.steps, 1)

====
